---- MODULE Spec2Model ----
(***************************************************************************)
(* Model of the database decision engine (src/decision_engine.py).         *)
(*                                                                         *)
(* A caller builds a dict (user_inputs for analyze / calculate_scores, or  *)
(* a score map for generate_database_profiles) and calls a method of one   *)
(* DecisionEngine instance.  The engine's attributes are the record        *)
(* `engine`; the dict the caller is holding is `inputs_dict` or            *)
(* `scores_dict`; `call` is the outcome of the last method call.           *)
(*                                                                         *)
(* `threads` holds the local variables of analyze calls that run           *)
(* concurrently on the engine, `streamlit` the session of src/app.py.        *)
(***************************************************************************)
EXTENDS Integers, Sequences, FiniteSets, TLC

VARIABLES engine, inputs_dict, scores_dict, call, threads, streamlit

vars == <<engine, inputs_dict, scores_dict, call, threads, streamlit>>

---------------------------------------------------------------------------
(* Bounds of the model *)

\* score values a caller may put in a score map passed directly to
\* generate_database_profiles are 0..MaxScoreArg
MaxScoreArg == 3

\* entries a caller appends, in all, to the pros and cons lists of returned
\* profiles
MaxAppended == 1

---------------------------------------------------------------------------
(* Python dicts: functions with a finite domain *)

EmptyDict == [k \in {} |-> 0]

Put(d, k, v) == [x \in (DOMAIN d) \cup {k} |-> IF x = k THEN v ELSE d[x]]

Del(d, k) == [x \in (DOMAIN d) \ {k} |-> d[x]]

Range(s) == {s[i] : i \in DOMAIN s}

---------------------------------------------------------------------------
(* The five criteria and the values the sidebar offers for each *)

Keys == {"app_type", "data_structure", "scalability", "transactions",
         "schema_flexibility"}

AppTypes == {"Web", "Analytics", "Real-time"}
DataStructures == {"Structured", "Semi-structured", "Unstructured"}
Scalabilities == {"Low", "Medium", "High"}
TransactionLevels == {"Low", "High"}
SchemaFlexibilities == {"Yes", "No"}

Enumeration(k) ==
    CASE k = "app_type" -> AppTypes
      [] k = "data_structure" -> DataStructures
      [] k = "scalability" -> Scalabilities
      [] k = "transactions" -> TransactionLevels
      [] k = "schema_flexibility" -> SchemaFlexibilities

\* one value outside each enumeration, as a caller other than the UI may pass
Unrecognized(k) ==
    CASE k = "app_type" -> "Mobile"
      [] k = "data_structure" -> "Graph"
      [] k = "scalability" -> "Extreme"
      [] k = "transactions" -> "Medium"
      [] k = "schema_flexibility" -> "Maybe"

FieldValues(k) == Enumeration(k) \cup {Unrecognized(k)}

\* a valid input: all five fields, each within its enumeration
IsValid(user_inputs) ==
    /\ DOMAIN user_inputs = Keys
    /\ \A k \in Keys : user_inputs[k] \in Enumeration(k)

---------------------------------------------------------------------------
(* DecisionEngine.__init__ *)

Databases == <<"mysql", "postgresql", "mongodb">>

Row(m, p, g) == [mysql |-> m, postgresql |-> p, mongodb |-> g]

\* AppTypeScores with 'Web': {'mysql': 4, ...}
AppTypeScoresWebFavoursMySQL ==
    ("Web" :> Row(4, 3, 2)) @@ ("Analytics" :> Row(2, 4, 1))
       @@ ("Real-time" :> Row(2, 2, 4))

AppTypeScores ==
    ("Web" :> Row(3, 3, 2)) @@ ("Analytics" :> Row(2, 4, 1))
       @@ ("Real-time" :> Row(2, 2, 4))

DataStructureScores ==
    ("Structured" :> Row(4, 4, 1)) @@ ("Semi-structured" :> Row(2, 3, 4))
       @@ ("Unstructured" :> Row(1, 2, 4))

ScalabilityScores ==
    ("Low" :> Row(3, 3, 2)) @@ ("Medium" :> Row(3, 3, 3))
       @@ ("High" :> Row(2, 2, 4))

TransactionScores ==
    ("Low" :> Row(2, 2, 3)) @@ ("High" :> Row(4, 4, 2))

SchemaScores ==
    ("Yes" :> Row(1, 2, 4)) @@ ("No" :> Row(4, 4, 2))

DbProfiles ==
    [mysql |->
       [name |-> "MySQL", type |-> "Relational (SQL)",
        pros |-> << "Mature and widely adopted with extensive community support",
                    "Excellent for structured data with ACID compliance",
                    "Strong performance for read-heavy workloads",
                    "Easy to learn and widely supported by hosting providers",
                    "Great for traditional web applications" >>,
        cons |-> << "Limited support for complex analytics queries",
                    "Horizontal scaling requires additional complexity (sharding)",
                    "Less flexible with schema changes",
                    "JSON support is basic compared to PostgreSQL",
                    "Advanced features lag behind PostgreSQL" >>],
     postgresql |->
       [name |-> "PostgreSQL", type |-> "Relational (SQL)",
        pros |-> << "Most advanced open-source relational database",
                    "Excellent for complex queries and analytics",
                    "Superior JSON/JSONB support for semi-structured data",
                    "Strong extensibility with custom functions and data types",
                    "Best-in-class data integrity and ACID compliance" >>,
        cons |-> << "Slightly steeper learning curve than MySQL",
                    "Higher memory consumption",
                    "Horizontal scaling still requires effort",
                    "Can be overkill for simple applications",
                    "Configuration complexity for optimization" >>],
     mongodb |->
       [name |-> "MongoDB", type |-> "NoSQL (Document)",
        pros |-> << "Excellent horizontal scalability (built-in sharding)",
                    "Schema flexibility for evolving data models",
                    "High performance for real-time applications",
                    "Natural fit for JSON/document-based data",
                    "Easy to get started with minimal setup" >>,
        cons |-> << "Eventual consistency can complicate transactions",
                    "No built-in joins (requires application-level logic)",
                    "Higher storage overhead",
                    "Not ideal for complex relational data",
                    "ACID transactions only within single documents by default" >>]]

\* the attributes of a freshly constructed engine
DecisionEngine ==
    [databases |-> Databases,
     app_type_scores |-> AppTypeScores,
     data_structure_scores |-> DataStructureScores,
     scalability_scores |-> ScalabilityScores,
     transaction_scores |-> TransactionScores,
     schema_scores |-> SchemaScores,
     db_profiles |-> DbProfiles]

---------------------------------------------------------------------------
(* calculate_scores *)

\* AddRow with "=" for "+=": the row replaces the sum so far
AddRowAssign(self, scores, row) ==
    [db \in DOMAIN scores |->
        IF db \in Range(self.databases) THEN row[db] ELSE scores[db]]

\* for db in self.databases: scores[db] += row[db]
AddRow(self, scores, row) ==
    [db \in DOMAIN scores |->
        IF db \in Range(self.databases) THEN scores[db] + row[db] ELSE scores[db]]

\* ScoreBlock without the "in" test: table[user_inputs[key]] raises KeyError
\* for a value that is no key of the table
ScoreBlockNoGuard(self, user_inputs, acc, key, table) ==
    IF acc.raised THEN acc
    ELSE IF key \notin DOMAIN user_inputs THEN [acc EXCEPT !.raised = TRUE]
    ELSE IF user_inputs[key] \in DOMAIN table
         THEN [acc EXCEPT !.scores = AddRow(self, acc.scores, table[user_inputs[key]]),
                          !.added = @ + 1]
         ELSE [acc EXCEPT !.raised = TRUE]

\* ScoreBlock reading the key with user_inputs.get(key): a missing key is
\* skipped like an unknown value
ScoreBlockGet(self, user_inputs, acc, key, table) ==
    IF key \notin DOMAIN user_inputs THEN acc
    ELSE IF user_inputs[key] \in DOMAIN table
         THEN [acc EXCEPT !.scores = AddRow(self, acc.scores, table[user_inputs[key]]),
                          !.added = @ + 1]
         ELSE acc

\* One "if user_inputs[key] in table" block.  acc is the local state of the
\* call: the scores dict, whether a KeyError was raised (the key is not in
\* user_inputs), and the number of blocks that added a row.
ScoreBlock(self, user_inputs, acc, key, table) ==
    IF acc.raised THEN acc
    ELSE IF key \notin DOMAIN user_inputs THEN [acc EXCEPT !.raised = TRUE]
    ELSE IF user_inputs[key] \in DOMAIN table
         THEN [acc EXCEPT !.scores = AddRow(self, acc.scores, table[user_inputs[key]]),
                          !.added = @ + 1]
         ELSE acc

\* calculate_scores with the transactions block looking its value up in the
\* scalability table
calculate_scores_wrong_table(self, user_inputs) ==
    LET s0 == [scores |-> [db \in Range(self.databases) |-> 0],
               raised |-> FALSE, added |-> 0]
        s1 == ScoreBlock(self, user_inputs, s0, "app_type", self.app_type_scores)
        s2 == ScoreBlock(self, user_inputs, s1, "data_structure",
                         self.data_structure_scores)
        s3 == ScoreBlock(self, user_inputs, s2, "scalability", self.scalability_scores)
        s4 == ScoreBlock(self, user_inputs, s3, "transactions", self.scalability_scores)
        s5 == ScoreBlock(self, user_inputs, s4, "schema_flexibility", self.schema_scores)
    IN  s5

\* The five blocks in source order; the result is [scores, raised, added].
calculate_scores(self, user_inputs) ==
    LET s0 == [scores |-> [db \in Range(self.databases) |-> 0],
               raised |-> FALSE, added |-> 0]
        s1 == ScoreBlock(self, user_inputs, s0, "app_type", self.app_type_scores)
        s2 == ScoreBlock(self, user_inputs, s1, "data_structure",
                         self.data_structure_scores)
        s3 == ScoreBlock(self, user_inputs, s2, "scalability", self.scalability_scores)
        s4 == ScoreBlock(self, user_inputs, s3, "transactions", self.transaction_scores)
        s5 == ScoreBlock(self, user_inputs, s4, "schema_flexibility", self.schema_scores)
    IN  s5

---------------------------------------------------------------------------
(* generate_database_profiles *)

\* DatabaseProfile(name=..., db_type=..., score=scores[db_key], pros=..., cons=...)
DatabaseProfile(self, scores, db_key) ==
    [name |-> self.db_profiles[db_key].name,
     db_type |-> self.db_profiles[db_key].type,
     score |-> scores[db_key],
     pros |-> self.db_profiles[db_key].pros,
     cons |-> self.db_profiles[db_key].cons]

\* InsertByScore putting p in front of the elements of equal score
InsertByScoreBeforeEqual(sorted, p) ==
    LET k == Cardinality({i \in 1..Len(sorted) : sorted[i].score > p.score})
    IN  SubSeq(sorted, 1, k) \o <<p>> \o SubSeq(sorted, k + 1, Len(sorted))

\* One step of the stable descending sort: p goes behind every element whose
\* score is not smaller than its own (list.sort keeps equal keys in their
\* original order, also with reverse=True).
InsertByScore(sorted, p) ==
    LET k == Cardinality({i \in 1..Len(sorted) : sorted[i].score >= p.score})
    IN  SubSeq(sorted, 1, k) \o <<p>> \o SubSeq(sorted, k + 1, Len(sorted))

RECURSIVE SortByScore(_)
\* profiles.sort(key=lambda x: x.score, reverse=True)
SortByScore(profiles) ==
    IF profiles = <<>> THEN <<>>
    ELSE InsertByScore(SortByScore(SubSeq(profiles, 1, Len(profiles) - 1)),
                       profiles[Len(profiles)])

\* The result is [raised, profiles]: scores[db_key] raises KeyError when a
\* candidate has no entry in the score map.
generate_database_profiles(self, scores) ==
    IF \E i \in 1..Len(self.databases) : self.databases[i] \notin DOMAIN scores
    THEN [raised |-> TRUE, profiles |-> <<>>]
    ELSE [raised |-> FALSE,
          profiles |-> SortByScore([i \in 1..Len(self.databases) |->
                                       DatabaseProfile(self, scores, self.databases[i])])]

---------------------------------------------------------------------------
(* identify_tradeoffs *)

Tradeoff(title, description) == [title |-> title, description |-> description]

SchemaRigidityTradeoff ==
    Tradeoff("Schema Rigidity vs Flexibility",
             "You want structured data but also schema flexibility. SQL databases enforce schemas strongly, while MongoDB offers flexibility but sacrifices relational integrity.")

ConsistencyTradeoff ==
    Tradeoff("Consistency vs Scalability (CAP Theorem)",
             "High scalability often requires eventual consistency (MongoDB), but high transaction requirements need strong ACID guarantees (PostgreSQL/MySQL). This is a fundamental distributed systems trade-off.")

AnalyticsTradeoff ==
    Tradeoff("SQL vs NoSQL for Analytics",
             "SQL databases excel at complex queries and joins, but NoSQL scales better horizontally. Consider PostgreSQL with read replicas or specialized analytics databases like ClickHouse.")

DocumentTradeoff ==
    Tradeoff("Document Flexibility vs Transaction Integrity",
             "MongoDB handles unstructured data well but has limited multi-document transaction support. PostgreSQL JSONB offers a middle ground with strong transactions and flexible document storage.")

ReadWriteTradeoff ==
    Tradeoff("Read Optimization vs Write Optimization",
             "MySQL excels at read-heavy workloads, MongoDB at write-heavy ones. PostgreSQL balances both. Consider your read/write ratio.")

\* "if cond: list.append(x)"
AppendIf(list, cond, x) == IF cond THEN Append(list, x) ELSE list

\* identify_tradeoffs with rule 3 tested on data_structure = Unstructured
\* in place of scalability = High
identify_tradeoffs_rule3_unstructured(user_inputs) ==
    LET t0 == <<>>
        t1 == AppendIf(t0, user_inputs["data_structure"] = "Structured"
                           /\ user_inputs["schema_flexibility"] = "Yes",
                       SchemaRigidityTradeoff)
        t2 == AppendIf(t1, user_inputs["scalability"] = "High"
                           /\ user_inputs["transactions"] = "High",
                       ConsistencyTradeoff)
        t3 == AppendIf(t2, user_inputs["app_type"] = "Analytics"
                           /\ user_inputs["data_structure"] = "Unstructured",
                       AnalyticsTradeoff)
        t4 == AppendIf(t3, user_inputs["data_structure"] = "Unstructured"
                           /\ user_inputs["transactions"] = "High",
                       DocumentTradeoff)
        t5 == AppendIf(t4, user_inputs["app_type"] = "Web", ReadWriteTradeoff)
    IN  t5

\* identify_tradeoffs as an if/elif chain: the first matching rule only
identify_tradeoffs_first_match(user_inputs) ==
    IF user_inputs["data_structure"] = "Structured"
       /\ user_inputs["schema_flexibility"] = "Yes" THEN <<SchemaRigidityTradeoff>>
    ELSE IF user_inputs["scalability"] = "High"
            /\ user_inputs["transactions"] = "High" THEN <<ConsistencyTradeoff>>
    ELSE IF user_inputs["app_type"] = "Analytics"
            /\ user_inputs["scalability"] = "High" THEN <<AnalyticsTradeoff>>
    ELSE IF user_inputs["data_structure"] = "Unstructured"
            /\ user_inputs["transactions"] = "High" THEN <<DocumentTradeoff>>
    ELSE IF user_inputs["app_type"] = "Web" THEN <<ReadWriteTradeoff>>
    ELSE <<>>

\* user_inputs holds all five keys here: analyze calls calculate_scores first,
\* which reads every key.
identify_tradeoffs(user_inputs) ==
    LET t0 == <<>>
        t1 == AppendIf(t0, user_inputs["data_structure"] = "Structured"
                           /\ user_inputs["schema_flexibility"] = "Yes",
                       SchemaRigidityTradeoff)
        t2 == AppendIf(t1, user_inputs["scalability"] = "High"
                           /\ user_inputs["transactions"] = "High",
                       ConsistencyTradeoff)
        t3 == AppendIf(t2, user_inputs["app_type"] = "Analytics"
                           /\ user_inputs["scalability"] = "High",
                       AnalyticsTradeoff)
        t4 == AppendIf(t3, user_inputs["data_structure"] = "Unstructured"
                           /\ user_inputs["transactions"] = "High",
                       DocumentTradeoff)
        t5 == AppendIf(t4, user_inputs["app_type"] = "Web", ReadWriteTradeoff)
    IN  t5

---------------------------------------------------------------------------
(* generate_recommendation *)

Digit == <<"0", "1", "2", "3", "4", "5", "6", "7", "8", "9">>

RECURSIVE FormatInt(_)
\* str(n) inside the f-string: the decimal digits of n, most significant first
FormatInt(n) ==
    IF n < 0 THEN <<"-">> \o FormatInt(0 - n)
    ELSE IF n < 10 THEN <<Digit[n + 1]>>
    ELSE FormatInt(n \div 10) \o <<Digit[(n % 10) + 1]>>

\* A reasoning string is the sequence of its fragments; a literal is one
\* fragment.
Text(s) == <<s>>

\* f'Note: {name} scored closely ({runner_up} vs {top}). Consider ...'
ClosenessNote(name, runner_up, top) ==
    <<"Note: ", name, " scored closely (">> \o FormatInt(runner_up)
       \o <<" vs ">> \o FormatInt(top)
       \o <<"). Consider evaluating both options based on team expertise.">>

\* MySQLReasoning with the vertical-scaling sentence under scalability = High
MySQLReasoningScalabilityHigh(user_inputs) ==
    LET r0 == <<Text("MySQL is recommended for your traditional web application needs with structured data.")>>
        r1 == AppendIf(r0, user_inputs["transactions"] = "High",
                       Text("Strong ACID compliance meets your transaction requirements."))
        r2 == AppendIf(r1, user_inputs["scalability"] = "High",
                       Text("Vertical scaling is sufficient for your scalability needs."))
        r3 == AppendIf(r2, user_inputs["app_type"] = "Web",
                       Text("Proven track record for web applications with excellent community support."))
    IN  r3

MySQLReasoning(user_inputs) ==
    LET r0 == <<Text("MySQL is recommended for your traditional web application needs with structured data.")>>
        r1 == AppendIf(r0, user_inputs["transactions"] = "High",
                       Text("Strong ACID compliance meets your transaction requirements."))
        r2 == AppendIf(r1, user_inputs["scalability"] # "High",
                       Text("Vertical scaling is sufficient for your scalability needs."))
        r3 == AppendIf(r2, user_inputs["app_type"] = "Web",
                       Text("Proven track record for web applications with excellent community support."))
    IN  r3

PostgreSQLReasoning(user_inputs) ==
    LET r0 == <<Text("PostgreSQL offers the best balance of advanced features for your requirements.")>>
        r1 == AppendIf(r0, user_inputs["app_type"] = "Analytics",
                       Text("Superior query optimization and window functions support complex analytics workloads."))
        r2 == AppendIf(r1, user_inputs["data_structure"] = "Semi-structured",
                       Text("Excellent JSONB support handles semi-structured data efficiently while maintaining relational integrity."))
        r3 == AppendIf(r2, user_inputs["transactions"] = "High",
                       Text("Industry-leading ACID compliance and advanced transaction isolation ensures data integrity."))
        r4 == AppendIf(r3, user_inputs["schema_flexibility"] = "Yes",
                       Text("JSONB and extension support provide flexibility while maintaining SQL capabilities."))
    IN  r4

MongoDBReasoning(user_inputs) ==
    LET r0 == <<Text("MongoDB is the best choice for your scalability and flexibility needs.")>>
        r1 == AppendIf(r0, user_inputs["scalability"] = "High",
                       Text("Built-in sharding provides excellent horizontal scalability without complex configuration."))
        r2 == AppendIf(r1, user_inputs["schema_flexibility"] = "Yes",
                       Text("Schema-less design allows rapid iteration and accommodates evolving data models."))
        r3 == AppendIf(r2, user_inputs["app_type"] = "Real-time",
                       Text("Optimized for high-throughput real-time applications with low-latency operations."))
        r4 == AppendIf(r3, user_inputs["data_structure"] = "Unstructured",
                       Text("Document model naturally fits unstructured and hierarchical data."))
    IN  r4

\* CloseCompetition with "score_diff < 2"
CloseCompetitionStrict(profiles, reasoning) ==
    IF Len(profiles) > 1
    THEN LET score_diff == profiles[1].score - profiles[2].score
         IN  AppendIf(reasoning, score_diff < 2,
                      ClosenessNote(profiles[2].name, profiles[2].score,
                                    profiles[1].score))
    ELSE reasoning

\* lines 347-353: the close competition note
CloseCompetition(profiles, reasoning) ==
    IF Len(profiles) > 1
    THEN LET score_diff == profiles[1].score - profiles[2].score
         IN  AppendIf(reasoning, score_diff <= 2,
                      ClosenessNote(profiles[2].name, profiles[2].score,
                                    profiles[1].score))
    ELSE reasoning

\* Confidence with "score_diff >= 3" for High
ConfidenceAtLeastThree(profiles) ==
    LET score_diff == IF Len(profiles) > 1
                      THEN profiles[1].score - profiles[2].score ELSE 5
    IN  IF score_diff >= 3 THEN "High"
        ELSE IF score_diff > 1 THEN "Medium"
        ELSE "Low"

\* lines 355-362: the confidence level
Confidence(profiles) ==
    LET score_diff == IF Len(profiles) > 1
                      THEN profiles[1].score - profiles[2].score ELSE 5
    IN  IF score_diff > 3 THEN "High"
        ELSE IF score_diff > 1 THEN "Medium"
        ELSE "Low"

generate_recommendation(profiles, user_inputs) ==
    LET top_db == profiles[1]
        reasoning == IF top_db.name = "MySQL" THEN MySQLReasoning(user_inputs)
                     ELSE IF top_db.name = "PostgreSQL"
                          THEN PostgreSQLReasoning(user_inputs)
                     ELSE MongoDBReasoning(user_inputs)
    IN  [database |-> top_db.name,
         confidence |-> Confidence(profiles),
         reasoning |-> CloseCompetition(profiles, reasoning)]

---------------------------------------------------------------------------
(* suggest_alternatives *)

Alternative(database, reason) == [database |-> database, reason |-> reason]

ColumnarAlternative ==
    Alternative("ClickHouse or Apache Druid",
                "Columnar databases optimized for massive-scale analytics and OLAP queries with superior compression and query performance.")

StreamingAlternative ==
    Alternative("Redis or Apache Kafka",
                "In-memory data stores and streaming platforms optimized for real-time data processing and sub-millisecond latency.")

DistributedSQLAlternative ==
    Alternative("CockroachDB or Google Spanner",
                "Distributed SQL databases offering both horizontal scalability and strong consistency (bypassing CAP theorem limitations).")

SearchAlternative ==
    Alternative("Elasticsearch",
                "Excellent for full-text search, log analytics, and unstructured data exploration with powerful aggregation capabilities.")

TimeSeriesAlternative ==
    Alternative("TimescaleDB or InfluxDB",
                "Specialized time-series databases for IoT, monitoring, and event-driven applications requiring time-based queries.")

\* suggest_alternatives as an if/elif chain: the first matching rule only
suggest_alternatives_first_match(user_inputs) ==
    IF user_inputs["app_type"] = "Analytics"
       /\ user_inputs["scalability"] = "High" THEN <<ColumnarAlternative>>
    ELSE IF user_inputs["app_type"] = "Real-time"
            /\ user_inputs["data_structure"] = "Unstructured" THEN <<StreamingAlternative>>
    ELSE IF user_inputs["scalability"] = "High"
            /\ user_inputs["transactions"] = "High" THEN <<DistributedSQLAlternative>>
    ELSE IF user_inputs["data_structure"] = "Unstructured"
            /\ user_inputs["app_type"] = "Analytics" THEN <<SearchAlternative>>
    ELSE IF user_inputs["app_type"] = "Real-time" THEN <<TimeSeriesAlternative>>
    ELSE <<>>

suggest_alternatives(user_inputs) ==
    LET a0 == <<>>
        a1 == AppendIf(a0, user_inputs["app_type"] = "Analytics"
                           /\ user_inputs["scalability"] = "High",
                       ColumnarAlternative)
        a2 == AppendIf(a1, user_inputs["app_type"] = "Real-time"
                           /\ user_inputs["data_structure"] = "Unstructured",
                       StreamingAlternative)
        a3 == AppendIf(a2, user_inputs["scalability"] = "High"
                           /\ user_inputs["transactions"] = "High",
                       DistributedSQLAlternative)
        a4 == AppendIf(a3, user_inputs["data_structure"] = "Unstructured"
                           /\ user_inputs["app_type"] = "Analytics",
                       SearchAlternative)
        a5 == AppendIf(a4, user_inputs["app_type"] = "Real-time",
                       TimeSeriesAlternative)
    IN  a5

---------------------------------------------------------------------------
(* analyze *)

\* The result is [raised, added, raised_in, ret]: a KeyError of
\* calculate_scores or of generate_database_profiles propagates, and nothing
\* is returned; `added` is the number of criteria calculate_scores had added
\* by then, `raised_in` the method the KeyError came from.
analyze(self, user_inputs) ==
    LET scored == calculate_scores(self, user_inputs)
        ranked == generate_database_profiles(self, scored.scores)
    IN  IF scored.raised \/ ranked.raised
        THEN [raised |-> TRUE, added |-> scored.added,
              raised_in |-> IF scored.raised THEN "calculate_scores"
                            ELSE "generate_database_profiles"]
        ELSE [raised |-> FALSE, added |-> scored.added,
              ret |-> [profiles |-> ranked.profiles,
                       tradeoffs |-> identify_tradeoffs(user_inputs),
                       recommendation |->
                           generate_recommendation(ranked.profiles, user_inputs),
                       alternatives |-> suggest_alternatives(user_inputs),
                       scores |-> scored.scores]]

---------------------------------------------------------------------------
(* Concurrent callers of analyze: the local variables of each call *)

Threads == {"A", "B"}

\* a thread that is not in analyze and holds no result
NotCalling == [pc |-> "idle"]

---------------------------------------------------------------------------
(* The Streamlit session (src/app.py): one run of main per interaction *)

\* a Python dict with the five keys in the order of KeyList
KeyList ==
    <<"app_type", "data_structure", "scalability", "transactions",
      "schema_flexibility">>

\* st.radio shows the first option until the user picks another one
DefaultSelection ==
    [k \in Keys |->
        CASE k = "app_type" -> "Web"
          [] k = "data_structure" -> "Structured"
          [] k = "scalability" -> "Low"
          [] k = "transactions" -> "Low"
          [] k = "schema_flexibility" -> "Yes"]

\* The session after the first run of main: the widgets at their defaults,
\* neither 'results' nor 'user_inputs' in st.session_state (an absent key is
\* the empty sequence, a present one a sequence of one value), the welcome
\* page rendered, no report generated.
FirstRun ==
    [selection |-> DefaultSelection,
     results |-> <<>>,
     user_inputs |-> <<>>,
     page |-> [kind |-> "welcome"],
     report |-> <<>>]

---------------------------------------------------------------------------
(* The caller *)

Idle == [op |-> "none"]

\* the caller sets one key of the user_inputs dict it is building
SetField(k, v) ==
    /\ scores_dict = EmptyDict
    /\ IF k \in DOMAIN inputs_dict THEN inputs_dict[k] # v ELSE TRUE
    /\ inputs_dict' = Put(inputs_dict, k, v)
    /\ call' = Idle
    /\ UNCHANGED <<engine, scores_dict>>
    /\ UNCHANGED <<threads, streamlit>>

\* the caller leaves a key out
DelField(k) ==
    /\ k \in DOMAIN inputs_dict
    /\ inputs_dict' = Del(inputs_dict, k)
    /\ call' = Idle
    /\ UNCHANGED <<engine, scores_dict>>
    /\ UNCHANGED <<threads, streamlit>>

\* engine.calculate_scores(inputs_dict)
CalculateScores ==
    /\ scores_dict = EmptyDict
    /\ LET r == calculate_scores(engine, inputs_dict)
       IN  call' = IF r.raised
                   THEN [op |-> "calculate_scores", outcome |-> "KeyError",
                         user_inputs |-> inputs_dict, added |-> r.added]
                   ELSE [op |-> "calculate_scores", outcome |-> "returned",
                         user_inputs |-> inputs_dict, added |-> r.added,
                         ret |-> r.scores]
    /\ UNCHANGED <<engine, inputs_dict, scores_dict>>
    /\ UNCHANGED <<threads, streamlit>>

\* the caller sets one entry of the score map it is building
SetScore(db, n) ==
    /\ inputs_dict = EmptyDict
    /\ IF db \in DOMAIN scores_dict THEN scores_dict[db] # n ELSE TRUE
    /\ scores_dict' = Put(scores_dict, db, n)
    /\ call' = Idle
    /\ UNCHANGED <<engine, inputs_dict>>
    /\ UNCHANGED <<threads, streamlit>>

\* the caller leaves a candidate out of the score map
DelScore(db) ==
    /\ db \in DOMAIN scores_dict
    /\ scores_dict' = Del(scores_dict, db)
    /\ call' = Idle
    /\ UNCHANGED <<engine, inputs_dict>>
    /\ UNCHANGED <<threads, streamlit>>

\* engine.generate_database_profiles(scores_dict)
GenerateProfiles ==
    /\ inputs_dict = EmptyDict
    /\ LET r == generate_database_profiles(engine, scores_dict)
       IN  call' = IF r.raised
                   THEN [op |-> "generate_database_profiles", outcome |-> "KeyError",
                         scores |-> scores_dict]
                   ELSE [op |-> "generate_database_profiles", outcome |-> "returned",
                         scores |-> scores_dict, ret |-> r.profiles]
    /\ UNCHANGED <<engine, inputs_dict, scores_dict>>
    /\ UNCHANGED <<threads, streamlit>>

\* what the caller still holds of the call before this one: the result of an
\* analyze call on the same dict, if that is what the last call was
PreviousResult ==
    IF call.op = "analyze" THEN (IF call.outcome = "returned" THEN <<call.ret>> ELSE <<>>)
    ELSE <<>>

\* self.databases sorted in place by score, as profiles is
SortedDatabases(self, scores) ==
    LET ranked == SortByScore([i \in 1..Len(self.databases) |->
                      [key |-> self.databases[i], score |-> scores[self.databases[i]]]])
    IN  [i \in 1..Len(ranked) |-> ranked[i].key]

\* Analyze with the ranking done by sorting self.databases in place
AnalyzeSortsDatabases ==
    /\ scores_dict = EmptyDict
    /\ LET r == analyze(engine, inputs_dict)
       IN  /\ call' = IF r.raised
                       THEN [op |-> "analyze", outcome |-> "KeyError",
                             user_inputs |-> inputs_dict, added |-> r.added,
                             raised_in |-> r.raised_in]
                       ELSE [op |-> "analyze", outcome |-> "returned",
                             user_inputs |-> inputs_dict, added |-> r.added,
                             ret |-> r.ret, prev |-> PreviousResult]
           /\ engine' = IF r.raised THEN engine
                         ELSE [engine EXCEPT
                                  !.databases = SortedDatabases(engine, r.ret.scores)]
    /\ UNCHANGED <<inputs_dict, scores_dict>>
    /\ UNCHANGED <<threads, streamlit>>

\* engine.analyze(inputs_dict); no method assigns to an attribute of self or
\* to an entry of user_inputs
Analyze ==
    /\ scores_dict = EmptyDict
    /\ LET r == analyze(engine, inputs_dict)
       IN  call' = IF r.raised
                   THEN [op |-> "analyze", outcome |-> "KeyError",
                         user_inputs |-> inputs_dict, added |-> r.added,
                         raised_in |-> r.raised_in]
                   ELSE [op |-> "analyze", outcome |-> "returned",
                         user_inputs |-> inputs_dict, added |-> r.added,
                         ret |-> r.ret, prev |-> PreviousResult]
    /\ UNCHANGED <<engine, inputs_dict, scores_dict>>
    /\ UNCHANGED <<threads, streamlit>>

\* engine = DecisionEngine(): the caller replaces the engine by a new one
NewEngine ==
    /\ call.op # "__init__"
    /\ engine' = DecisionEngine
    /\ call' = [op |-> "__init__"]
    /\ UNCHANGED <<inputs_dict, scores_dict>>
    /\ UNCHANGED <<threads, streamlit>>

Init ==
    /\ engine = DecisionEngine
    /\ inputs_dict = EmptyDict
    /\ scores_dict = EmptyDict
    /\ call = Idle
    /\ threads = [t \in Threads |-> NotCalling]
    /\ streamlit = FirstRun

Next ==
    \/ \E k \in Keys : \E v \in FieldValues(k) : SetField(k, v)
    \/ \E k \in Keys : DelField(k)
    \/ \E db \in Range(Databases) : \E n \in 0..MaxScoreArg : SetScore(db, n)
    \/ \E db \in Range(Databases) : DelScore(db)
    \/ CalculateScores
    \/ GenerateProfiles
    \/ Analyze
    \/ NewEngine

Spec == Init /\ [][Next]_vars

---------------------------------------------------------------------------
(* A caller that changes a result it was given *)

\* DatabaseProfile is a plain dataclass and its pros and cons are the list
\* objects of self.db_profiles (lines 205-206 pass the lists, not copies):
\* every profile a caller holds shows what these lists hold now.
ProfileKey(self, name) ==
    CHOOSE db_key \in DOMAIN self.db_profiles : self.db_profiles[db_key].name = name

SharedLists(self, profiles) ==
    [i \in 1..Len(profiles) |->
        [profiles[i] EXCEPT
            !.pros = self.db_profiles[ProfileKey(self, profiles[i].name)].pros,
            !.cons = self.db_profiles[ProfileKey(self, profiles[i].name)].cons]]

SharedListsOfResult(self, ret) ==
    [ret EXCEPT !.profiles = SharedLists(self, ret.profiles)]

\* what the caller appends
Extra == "extra"

Appended(self) ==
    LET n(db_key) == Len(self.db_profiles[db_key].pros) + Len(self.db_profiles[db_key].cons)
        m(db_key) == Len(DbProfiles[db_key].pros) + Len(DbProfiles[db_key].cons)
    IN  (n("mysql") + n("postgresql") + n("mongodb"))
           - (m("mysql") + m("postgresql") + m("mongodb"))

\* the engine after list.append(Extra) on the pros or cons list of db_key
AppendToList(self, db_key, field) ==
    IF field = "pros"
    THEN [self EXCEPT !.db_profiles[db_key].pros = Append(@, Extra)]
    ELSE [self EXCEPT !.db_profiles[db_key].cons = Append(@, Extra)]

\* results['profiles'][i].pros.append(Extra), or .cons, on the result of
\* the last analyze call
AppendToReturned(i, field) ==
    /\ call.op = "analyze"
    /\ call.outcome = "returned"
    /\ i \in 1..Len(call.ret.profiles)
    /\ Appended(engine) < MaxAppended
    /\ LET after == AppendToList(engine, ProfileKey(engine, call.ret.profiles[i].name),
                                 field)
       IN  /\ engine' = after
           /\ call' = [call EXCEPT
                          !.ret = SharedListsOfResult(after, @),
                          !.prev = [j \in 1..Len(@) |-> SharedListsOfResult(after, @[j])]]
    /\ UNCHANGED <<inputs_dict, scores_dict>>
    /\ UNCHANGED <<threads, streamlit>>

NextCallerMutation ==
    \/ Next
    \/ \E i \in 1..3 : \E field \in {"pros", "cons"} : AppendToReturned(i, field)

SpecCallerMutation == Init /\ [][NextCallerMutation]_vars

---------------------------------------------------------------------------
(* Concurrent analyze calls on one engine *)

\* A thread is between two statements of analyze: `pc` names the last
\* statement it has executed, the other fields are the local variables
\* analyze has assigned so far.  The engine is shared, and no statement of
\* analyze or of the methods it calls assigns to an attribute of self.
\* Each thread makes one call, with any valid input.

\* a dict with all five keys, each value from its enumeration
UserInputs(app_type, data_structure, scalability, transactions, flexibility) ==
    [k \in Keys |->
        CASE k = "app_type" -> app_type
          [] k = "data_structure" -> data_structure
          [] k = "scalability" -> scalability
          [] k = "transactions" -> transactions
          [] k = "schema_flexibility" -> flexibility]

\* the local variables of thread t after `scores = self.calculate_scores(..)`
Scored(t, user_inputs) ==
    [pc |-> "scored",
     user_inputs |-> user_inputs,
     scores |-> calculate_scores(engine, user_inputs).scores]

\* Scoring as it would be if calculate_scores kept the totals in an attribute
\* of the engine: a thread that has scored and not yet ranked reads the
\* totals of the call that scored last.
ScoringShared(t, user_inputs) ==
    /\ threads[t].pc = "idle"
    /\ threads' =
           [u \in Threads |->
               IF u = t THEN Scored(t, user_inputs)
               ELSE IF threads[u].pc = "scored"
               THEN [threads[u] EXCEPT !.scores = Scored(t, user_inputs).scores]
               ELSE threads[u]]
    /\ UNCHANGED <<engine, inputs_dict, scores_dict, call, streamlit>>

\* thread t calls analyze(user_inputs); step 1, the scores
Scoring(t, user_inputs) ==
    /\ threads[t].pc = "idle"
    /\ threads' = [threads EXCEPT ![t] = Scored(t, user_inputs)]
    /\ UNCHANGED <<engine, inputs_dict, scores_dict, call, streamlit>>

\* step 2, the ranked profiles
Ranking(t) ==
    /\ threads[t].pc = "scored"
    /\ threads' =
           [threads EXCEPT ![t] =
               [pc |-> "ranked",
                user_inputs |-> @.user_inputs,
                scores |-> @.scores,
                profiles |->
                    generate_database_profiles(engine, @.scores).profiles]]
    /\ UNCHANGED <<engine, inputs_dict, scores_dict, call, streamlit>>

\* step 3, the trade-offs
IdentifyingTradeoffs(t) ==
    /\ threads[t].pc = "ranked"
    /\ threads' =
           [threads EXCEPT ![t] =
               [pc |-> "tradeoffs",
                user_inputs |-> @.user_inputs,
                scores |-> @.scores,
                profiles |-> @.profiles,
                tradeoffs |-> identify_tradeoffs(@.user_inputs)]]
    /\ UNCHANGED <<engine, inputs_dict, scores_dict, call, streamlit>>

\* step 4, the recommendation
Recommending(t) ==
    /\ threads[t].pc = "tradeoffs"
    /\ threads' =
           [threads EXCEPT ![t] =
               [pc |-> "recommended",
                user_inputs |-> @.user_inputs,
                scores |-> @.scores,
                profiles |-> @.profiles,
                tradeoffs |-> @.tradeoffs,
                recommendation |->
                    generate_recommendation(@.profiles, @.user_inputs)]]
    /\ UNCHANGED <<engine, inputs_dict, scores_dict, call, streamlit>>

\* step 5, the alternatives, and the return of the result dict; the locals
\* of the call are gone, the caller holds its input and the result
Returning(t) ==
    /\ threads[t].pc = "recommended"
    /\ threads' =
           [threads EXCEPT ![t] =
               [pc |-> "returned",
                user_inputs |-> @.user_inputs,
                ret |-> [profiles |-> @.profiles,
                         tradeoffs |-> @.tradeoffs,
                         recommendation |-> @.recommendation,
                         alternatives |-> suggest_alternatives(@.user_inputs),
                         scores |-> @.scores]]]
    /\ UNCHANGED <<engine, inputs_dict, scores_dict, call, streamlit>>

NextConcurrent ==
    \E t \in Threads :
        \/ \E app_type \in AppTypes, data_structure \in DataStructures,
              scalability \in Scalabilities, transactions \in TransactionLevels,
              flexibility \in SchemaFlexibilities :
                Scoring(t, UserInputs(app_type, data_structure, scalability,
                                      transactions, flexibility))
        \/ Ranking(t)
        \/ IdentifyingTradeoffs(t)
        \/ Recommending(t)
        \/ Returning(t)

SpecConcurrent == Init /\ [][NextConcurrent]_vars

---------------------------------------------------------------------------
(* The Streamlit page: generate_text_report and the runs of main *)

RECURSIVE Extend(_)
\* the lists of a list, one after the other (report.append in nested loops)
Extend(lists) ==
    IF Len(lists) = 0 THEN <<>> ELSE lists[1] \o Extend(SubSeq(lists, 2, Len(lists)))

\* "=" * 70 and "-" * 70
DoubleRule == "======================================================================"
SingleRule == "----------------------------------------------------------------------"

\* A line of the report is the sequence of the fragments of its f-string;
\* the characters outside ASCII are written as Python escapes.
RequirementLines(user_inputs) ==
    << <<"Application Type: ", user_inputs["app_type"]>>,
       <<"Data Structure: ", user_inputs["data_structure"]>>,
       <<"Scalability: ", user_inputs["scalability"]>>,
       <<"Transactions: ", user_inputs["transactions"]>>,
       <<"Schema Flexibility: ", user_inputs["schema_flexibility"]>> >>

ProfileLines(profile) ==
    << <<"\n", profile.name, " (Score: ">> \o FormatInt(profile.score) \o <<")">>,
       <<"Type: ", profile.db_type>>,
       <<"\nPros:">> >>
    \o [i \in 1..Len(profile.pros) |-> <<"  \\u2713 ", profile.pros[i]>>]
    \o << <<"\nCons:">> >>
    \o [i \in 1..Len(profile.cons) |-> <<"  \\u2717 ", profile.cons[i]>>]
    \o << <<"">> >>

TradeoffLines(tradeoff) ==
    << <<"\n", tradeoff.title>>, <<"  ", tradeoff.description>> >>

AlternativeLines(alt) ==
    << <<"\n", alt.database>>, <<"  ", alt.reason>> >>

\* the list `report` before "\n".join
generate_text_report(results, user_inputs) ==
    LET rec == results.recommendation
    IN  << <<DoubleRule>>,
           <<"DATABASE DECISION ASSISTANT - ANALYSIS REPORT">>,
           <<DoubleRule>>,
           <<"">>,
           <<"USER REQUIREMENTS:">>,
           <<SingleRule>> >>
        \o RequirementLines(user_inputs)
        \o << <<"">>,
              <<"RECOMMENDATION:">>,
              <<SingleRule>>,
              <<"Database: ", rec.database>>,
              <<"Confidence: ", rec.confidence>>,
              <<"">>,
              <<"Reasoning:">> >>
        \o [i \in 1..Len(rec.reasoning) |-> <<"  \\u2022 ">> \o rec.reasoning[i]]
        \o << <<"">>,
              <<"DATABASE COMPARISON:">>,
              <<SingleRule>> >>
        \o Extend([i \in 1..Len(results.profiles) |-> ProfileLines(results.profiles[i])])
        \o (IF Len(results.tradeoffs) > 0
            THEN << <<"KEY TRADE-OFFS:">>, <<SingleRule>> >>
                 \o Extend([i \in 1..Len(results.tradeoffs) |->
                               TradeoffLines(results.tradeoffs[i])])
                 \o << <<"">> >>
            ELSE <<>>)
        \o (IF Len(results.alternatives) > 0
            THEN << <<"ALTERNATIVE DATABASES:">>, <<SingleRule>> >>
                 \o Extend([i \in 1..Len(results.alternatives) |->
                               AlternativeLines(results.alternatives[i])])
                 \o << <<"">> >>
            ELSE <<>>)
        \o << <<DoubleRule>>, <<"End of Report">>, <<DoubleRule>> >>

\* What a run of main renders below the header, from st.session_state alone:
\* the results page when 'results' is in the session, else the welcome page.
Render(results, user_inputs) ==
    IF Len(results) = 0 THEN [kind |-> "welcome"]
    ELSE [kind |-> "results",
          recommendation |-> results[1].recommendation,
          profiles |-> results[1].profiles,
          tradeoffs |-> results[1].tradeoffs,
          alternatives |-> results[1].alternatives,
          total_score |-> <<results[1].scores["mysql"],
                            results[1].scores["postgresql"],
                            results[1].scores["mongodb"]>>,
          criteria |-> [i \in 1..Len(KeyList) |-> user_inputs[1][KeyList[i]]]]

\* A change of radio k to v in an application that analyzes on every run
\* of main
ChangeSelectionAnalyzes(k, v) ==
    /\ v \in Enumeration(k)
    /\ streamlit.selection[k] # v
    /\ LET user_inputs == [streamlit.selection EXCEPT ![k] = v]
           results == analyze(engine, user_inputs).ret
       IN  streamlit' = [selection |-> user_inputs,
                         results |-> <<results>>,
                         user_inputs |-> <<user_inputs>>,
                         page |-> Render(<<results>>, <<user_inputs>>),
                         report |-> <<>>]
    /\ UNCHANGED <<engine, inputs_dict, scores_dict, call, threads>>

\* The user picks option v of radio k: main runs again with
\* analyze_button False, so the session is left as it is and the page is
\* rendered from it; the export button is False on this run, so no download
\* button is shown.
ChangeSelection(k, v) ==
    /\ v \in Enumeration(k)
    /\ streamlit.selection[k] # v
    /\ streamlit' = [streamlit EXCEPT
           !.selection = [@ EXCEPT ![k] = v],
           !.page = Render(streamlit.results, streamlit.user_inputs),
           !.report = <<>>]
    /\ UNCHANGED <<engine, inputs_dict, scores_dict, call, threads>>

\* The user clicks "Analyze & Compare": user_inputs is built from the five
\* widgets, analyzed by the engine of the session, and both are stored
\* before the page is rendered.
ClickAnalyze ==
    /\ LET user_inputs == [k \in Keys |-> streamlit.selection[k]]
           results == analyze(engine, user_inputs).ret
       IN  streamlit' = [streamlit EXCEPT
               !.results = <<results>>,
               !.user_inputs = <<user_inputs>>,
               !.page = Render(<<results>>, <<user_inputs>>),
               !.report = <<>>]
    /\ UNCHANGED <<engine, inputs_dict, scores_dict, call, threads>>

\* The user clicks "Export Analysis Report", which the results page shows:
\* main runs again with analyze_button False, renders the page from the
\* session and generates the report for the download button.
ClickExport ==
    /\ streamlit.page.kind = "results"
    /\ streamlit' = [streamlit EXCEPT
           !.page = Render(streamlit.results, streamlit.user_inputs),
           !.report = <<generate_text_report(streamlit.results[1],
                                           streamlit.user_inputs[1])>>]
    /\ UNCHANGED <<engine, inputs_dict, scores_dict, call, threads>>

NextUI ==
    \/ \E k \in Keys : \E v \in Enumeration(k) : ChangeSelection(k, v)
    \/ ClickAnalyze
    \/ ClickExport

SpecUI == Init /\ [][NextUI]_vars

---------------------------------------------------------------------------
(* The calls the properties below speak about *)

ScoringCall == call.op \in {"analyze", "calculate_scores"}

AnalyzeReturned == call.op = "analyze" /\ call.outcome = "returned"

ValidAnalysis == AnalyzeReturned /\ IsValid(call.user_inputs)

\* the score map a scoring call returned
ReturnedScores == IF call.op = "analyze" THEN call.ret.scores ELSE call.ret

\* the ranked profiles a call returned, and the score map they were made from
RankingReturned ==
    call.op \in {"analyze", "generate_database_profiles"} /\ call.outcome = "returned"

ReturnedProfiles == IF call.op = "analyze" THEN call.ret.profiles ELSE call.ret

RankedScores == IF call.op = "analyze" THEN call.ret.scores ELSE call.scores

\* top score minus runner-up score of a returned analysis
Gap == call.ret.profiles[1].score - call.ret.profiles[2].score

---------------------------------------------------------------------------
(* C1 *)

\* C1 as stated: analyze and calculate_scores fail, and return no result,
\* whenever a field is missing or holds a value outside its enumeration
\* (the claim names the failure ValidationError; any failure is accepted
\* here).
C1_FailsOnInvalid ==
    (ScoringCall /\ ~IsValid(call.user_inputs)) => call.outcome # "returned"

\* C1 amended: analyze and calculate_scores fail, with a KeyError and
\* without a result, exactly when one of the five fields is missing, and the
\* KeyError of analyze is raised in calculate_scores, before ranking,
\* trade-offs, recommendation and alternatives; with all five fields
\* present the call returns a result, also when a value lies outside its
\* enumeration.
C1_KeyErrorIffFieldMissing ==
    ScoringCall =>
        /\ call.outcome \in {"KeyError", "returned"}
        /\ call.outcome = "KeyError" <=> ~(Keys \subseteq DOMAIN call.user_inputs)
        /\ (call.op = "analyze" /\ call.outcome = "KeyError")
              => call.raised_in = "calculate_scores"

\* an analyze call that failed on a missing field after app_type was scored
C1_Witness ==
    /\ call.op = "analyze"
    /\ call.outcome = "KeyError"
    /\ "app_type" \in DOMAIN call.user_inputs
    /\ "scalability" \notin DOMAIN call.user_inputs
    /\ call.added >= 1

---------------------------------------------------------------------------
(* C2 *)

\* the five score-matrix cells of candidate db for the selected values
Cells(self, user_inputs, db) ==
    << self.app_type_scores[user_inputs["app_type"]][db],
       self.data_structure_scores[user_inputs["data_structure"]][db],
       self.scalability_scores[user_inputs["scalability"]][db],
       self.transaction_scores[user_inputs["transactions"]][db],
       self.schema_scores[user_inputs["schema_flexibility"]][db] >>

\* C2: for every valid input and every candidate, the total returned by
\* calculate_scores is the sum of the candidate's five cells, every cell is
\* between 0 and 4, and the total is between 5 and 20.
C2_TotalIsSumOfCells ==
    (ScoringCall /\ call.outcome = "returned" /\ IsValid(call.user_inputs)) =>
        /\ DOMAIN ReturnedScores = Range(Databases)
        /\ \A db \in Range(Databases) :
              LET c == Cells(engine, call.user_inputs, db)
              IN  /\ ReturnedScores[db] = c[1] + c[2] + c[3] + c[4] + c[5]
                  /\ \A i \in 1..5 : c[i] \in 0..4
                  /\ ReturnedScores[db] \in 5..20

\* a valid input scored by calculate_scores with the largest total there is
C2_Witness ==
    /\ call.op = "calculate_scores"
    /\ call.outcome = "returned"
    /\ IsValid(call.user_inputs)
    /\ call.ret["mongodb"] = 19
    /\ call.ret["mysql"] = 8

---------------------------------------------------------------------------
(* C3 *)

\* the place of a candidate in the fixed priority order
Priority(name) ==
    CASE name = "MySQL" -> 1 [] name = "PostgreSQL" -> 2 [] name = "MongoDB" -> 3

KeyOf(name) ==
    CASE name = "MySQL" -> "mysql" [] name = "PostgreSQL" -> "postgresql"
      [] name = "MongoDB" -> "mongodb"

\* C3: generate_database_profiles returns the three candidates, each once,
\* each with its score, in non-increasing score order, and of two candidates
\* with equal score the one earlier in MySQL, PostgreSQL, MongoDB comes first.
C3_RankingStable ==
    RankingReturned =>
        LET ps == ReturnedProfiles
        IN  /\ Len(ps) = 3
            /\ {ps[i].name : i \in 1..3} = {"MySQL", "PostgreSQL", "MongoDB"}
            /\ \A i \in 1..3 : ps[i].score = RankedScores[KeyOf(ps[i].name)]
            /\ \A i \in 1..2 : ps[i].score >= ps[i + 1].score
            /\ \A i \in 1..3 : \A j \in 1..3 :
                  (i < j /\ ps[i].score = ps[j].score)
                      => Priority(ps[i].name) < Priority(ps[j].name)

\* a direct call whose score map has PostgreSQL and MongoDB tied ahead of MySQL
C3_Witness ==
    /\ call.op = "generate_database_profiles"
    /\ call.outcome = "returned"
    /\ call.scores["postgresql"] = call.scores["mongodb"]
    /\ call.scores["mysql"] < call.scores["mongodb"]
    /\ call.ret[1].name = "PostgreSQL"


---------------------------------------------------------------------------
(* C4 *)

\* C4: for every valid input the confidence is High iff the gap between the
\* first and the second ranked score exceeds 3, Medium iff the gap is 2 or 3,
\* Low iff the gap is at most 1.
C4_ConfidenceFromGap ==
    ValidAnalysis =>
        LET confidence == call.ret.recommendation.confidence
        IN  /\ confidence = "High" <=> Gap > 3
            /\ confidence = "Medium" <=> Gap \in {2, 3}
            /\ confidence = "Low" <=> Gap <= 1

\* a valid analysis at the upper edge of Medium
C4_Witness ==
    /\ ValidAnalysis
    /\ Gap = 3
    /\ call.ret.recommendation.confidence = "Medium"

---------------------------------------------------------------------------
(* C5 *)

DigitValue(c) == CHOOSE d \in 0..9 : Digit[d + 1] = c

RECURSIVE ParseInt(_)
\* the number a sequence of decimal digits writes
ParseInt(ds) ==
    IF Len(ds) = 0 THEN 0
    ELSE 10 * ParseInt(SubSeq(ds, 1, Len(ds) - 1)) + DigitValue(ds[Len(ds)])

IsNote(entry) == entry[1] = "Note: "

\* the fragments of a note: "Note: ", name, " scored closely (", digits,
\* " vs ", digits, "). Consider ..."
VsIndex(entry) == CHOOSE i \in 1..Len(entry) : entry[i] = " vs "

NoteName(entry) == entry[2]

NoteRunnerUp(entry) == ParseInt(SubSeq(entry, 4, VsIndex(entry) - 1))

NoteTop(entry) == ParseInt(SubSeq(entry, VsIndex(entry) + 1, Len(entry) - 1))

\* C5: for every valid input the reasoning holds a closeness note iff the
\* gap is at most 2; the note is the last entry, names the second ranked
\* profile, and states the runner-up score and the top score.
C5_ClosenessNote ==
    ValidAnalysis =>
        LET reasoning == call.ret.recommendation.reasoning
            last == reasoning[Len(reasoning)]
        IN  /\ Len(reasoning) >= 1
            /\ IsNote(last) <=> Gap <= 2
            /\ \A i \in 1..Len(reasoning) : IsNote(reasoning[i]) => i = Len(reasoning)
            /\ IsNote(last) =>
                  /\ \E i \in 1..Len(last) : last[i] = " vs "
                  /\ NoteName(last) = call.ret.profiles[2].name
                  /\ NoteRunnerUp(last) = call.ret.profiles[2].score
                  /\ NoteTop(last) = call.ret.profiles[1].score

\* a valid analysis with gap 2, whose note states two two-digit scores
C5_Witness ==
    /\ ValidAnalysis
    /\ Gap = 2
    /\ IsNote(call.ret.recommendation.reasoning[Len(call.ret.recommendation.reasoning)])
    /\ call.ret.profiles[1].score >= 10

---------------------------------------------------------------------------
(* C6 *)

RECURSIVE SelectFrom(_, _, _)
\* the entries of list whose flag holds, from index i on, in list order
SelectFrom(list, flags, i) ==
    IF i > Len(list) THEN <<>>
    ELSE (IF flags[i] THEN <<list[i]>> ELSE <<>>) \o SelectFrom(list, flags, i + 1)

TradeoffTitles ==
    << "Schema Rigidity vs Flexibility",
       "Consistency vs Scalability (CAP Theorem)",
       "SQL vs NoSQL for Analytics",
       "Document Flexibility vs Transaction Integrity",
       "Read Optimization vs Write Optimization" >>

TradeoffRules(ui) ==
    << ui["data_structure"] = "Structured" /\ ui["schema_flexibility"] = "Yes",
       ui["scalability"] = "High" /\ ui["transactions"] = "High",
       ui["app_type"] = "Analytics" /\ ui["scalability"] = "High",
       ui["data_structure"] = "Unstructured" /\ ui["transactions"] = "High",
       ui["app_type"] = "Web" >>

\* C6: for every valid input identify_tradeoffs returns exactly the
\* trade-offs of the rules whose predicate holds, each once, in declaration
\* order, whatever the other rules do, and leaves the input as it was.
C6_TradeoffRules ==
    ValidAnalysis =>
        LET tradeoffs == call.ret.tradeoffs
        IN  /\ [i \in 1..Len(tradeoffs) |-> tradeoffs[i].title]
                  = SelectFrom(TradeoffTitles, TradeoffRules(call.user_inputs), 1)
            /\ inputs_dict = call.user_inputs

\* a valid analysis in which rules 1, 2 and 5 fire together
C6_Witness ==
    /\ ValidAnalysis
    /\ Len(call.ret.tradeoffs) = 3
    /\ call.ret.tradeoffs[1].title = "Schema Rigidity vs Flexibility"
    /\ call.ret.tradeoffs[3].title = "Read Optimization vs Write Optimization"

---------------------------------------------------------------------------
(* C7 *)

AlternativeNames ==
    << "ClickHouse or Apache Druid",
       "Redis or Apache Kafka",
       "CockroachDB or Google Spanner",
       "Elasticsearch",
       "TimescaleDB or InfluxDB" >>

AlternativeRules(ui) ==
    << ui["app_type"] = "Analytics" /\ ui["scalability"] = "High",
       ui["app_type"] = "Real-time" /\ ui["data_structure"] = "Unstructured",
       ui["scalability"] = "High" /\ ui["transactions"] = "High",
       ui["data_structure"] = "Unstructured" /\ ui["app_type"] = "Analytics",
       ui["app_type"] = "Real-time" >>

AnalyticsExample ==
    [k \in Keys |->
        CASE k = "app_type" -> "Analytics"
          [] k = "data_structure" -> "Semi-structured"
          [] k = "scalability" -> "High"
          [] k = "transactions" -> "High"
          [] k = "schema_flexibility" -> "Yes"]

\* C7: for every valid input suggest_alternatives returns exactly the
\* alternatives of the rules whose predicate holds, each once, in
\* declaration order; input {Analytics, Semi-structured, High, High, Yes}
\* yields the ClickHouse/Druid and the CockroachDB/Spanner alternatives.
C7_AlternativeRules ==
    ValidAnalysis =>
        LET names == [i \in 1..Len(call.ret.alternatives) |->
                         call.ret.alternatives[i].database]
        IN  /\ names = SelectFrom(AlternativeNames,
                                  AlternativeRules(call.user_inputs), 1)
            /\ call.user_inputs = AnalyticsExample
                  => names = <<"ClickHouse or Apache Druid",
                               "CockroachDB or Google Spanner">>

\* the analysis of {Analytics, Semi-structured, High, High, Yes}
C7_Witness ==
    /\ ValidAnalysis
    /\ call.user_inputs = AnalyticsExample
    /\ Len(call.ret.alternatives) = 2

---------------------------------------------------------------------------
(* C8 *)

\* what two results are compared on: scores, ranking order, recommendation,
\* trade-off list, alternative list
Summary(ret) ==
    [scores |-> ret.scores,
     ranking |-> [i \in 1..Len(ret.profiles) |->
                     <<ret.profiles[i].name, ret.profiles[i].score>>],
     recommendation |-> ret.recommendation,
     tradeoffs |-> ret.tradeoffs,
     alternatives |-> ret.alternatives]

\* C8: for every valid input, the result of an analyze call, after any
\* sequence of earlier calls, equals on these parts the result a freshly
\* constructed engine returns for that input, and the result of the call
\* made just before it with the same input.
C8_Deterministic ==
    ValidAnalysis =>
        /\ Summary(call.ret) = Summary(analyze(DecisionEngine, call.user_inputs).ret)
        /\ \A i \in 1..Len(call.prev) : Summary(call.ret) = Summary(call.prev[i])

\* a second analyze call in a row with the same valid input, one with a tie
C8_Witness ==
    /\ ValidAnalysis
    /\ Len(call.prev) = 1
    /\ Gap = 0

---------------------------------------------------------------------------
(* C9 *)

WebExample ==
    [k \in Keys |->
        CASE k = "app_type" -> "Web"
          [] k = "data_structure" -> "Structured"
          [] k = "scalability" -> "Low"
          [] k = "transactions" -> "High"
          [] k = "schema_flexibility" -> "No"]

\* C9: input {Web, Structured, Low, High, No} gives MySQL=18, PostgreSQL=18,
\* MongoDB=9, the ranking MySQL, PostgreSQL, MongoDB, the recommendation
\* MySQL with confidence Low, the read vs write optimization trade-off, and
\* a closeness note naming PostgreSQL.
C9_WebScenario ==
    (AnalyzeReturned /\ call.user_inputs = WebExample) =>
        LET reasoning == call.ret.recommendation.reasoning
        IN  /\ call.ret.scores = Row(18, 18, 9)
            /\ [i \in 1..Len(call.ret.profiles) |-> call.ret.profiles[i].name]
                  = <<"MySQL", "PostgreSQL", "MongoDB">>
            /\ call.ret.recommendation.database = "MySQL"
            /\ call.ret.recommendation.confidence = "Low"
            /\ \E i \in 1..Len(call.ret.tradeoffs) :
                  call.ret.tradeoffs[i].title = "Read Optimization vs Write Optimization"
            /\ \E i \in 1..Len(reasoning) :
                  IsNote(reasoning[i]) /\ NoteName(reasoning[i]) = "PostgreSQL"

\* the analysis of {Web, Structured, Low, High, No}
C9_Witness ==
    /\ AnalyzeReturned
    /\ call.user_inputs = WebExample
    /\ call.ret.profiles[1].score = call.ret.profiles[2].score

---------------------------------------------------------------------------
(* C10 *)

RealTimeExample ==
    [k \in Keys |->
        CASE k = "app_type" -> "Real-time"
          [] k = "data_structure" -> "Unstructured"
          [] k = "scalability" -> "High"
          [] k = "transactions" -> "Low"
          [] k = "schema_flexibility" -> "Yes"]

\* C10: input {Real-time, Unstructured, High, Low, Yes} has MongoDB as the
\* recommendation and as the first ranked profile, and its alternatives
\* contain the Redis/Kafka and the TimescaleDB/InfluxDB alternative.
C10_RealTimeScenario ==
    (AnalyzeReturned /\ call.user_inputs = RealTimeExample) =>
        /\ call.ret.recommendation.database = "MongoDB"
        /\ call.ret.profiles[1].name = "MongoDB"
        /\ \E i \in 1..Len(call.ret.alternatives) :
              call.ret.alternatives[i].database = "Redis or Apache Kafka"
        /\ \E i \in 1..Len(call.ret.alternatives) :
              call.ret.alternatives[i].database = "TimescaleDB or InfluxDB"

\* the analysis of {Real-time, Unstructured, High, Low, Yes}
C10_Witness ==
    /\ AnalyzeReturned
    /\ call.user_inputs = RealTimeExample
    /\ call.ret.scores["mongodb"] = 19

---------------------------------------------------------------------------
(* C11 *)

TitlesOf(tradeoffs) == [i \in 1..Len(tradeoffs) |-> tradeoffs[i].title]

\* C11 as stated: for input {Analytics, Semi-structured, High, High, Yes} the
\* trade-offs are 'Consistency vs Scalability' and 'Document Flexibility vs
\* Transaction Integrity'.
C11_ConsistencyAndDocument ==
    (AnalyzeReturned /\ call.user_inputs = AnalyticsExample) =>
        TitlesOf(call.ret.tradeoffs)
            = <<"Consistency vs Scalability (CAP Theorem)",
                "Document Flexibility vs Transaction Integrity">>

\* C11 amended: for input {Analytics, Semi-structured, High, High, Yes} the
\* trade-offs are 'Consistency vs Scalability (CAP Theorem)' and 'SQL vs
\* NoSQL for Analytics', in this order; the document trade-off needs
\* data_structure = Unstructured.
C11_ConsistencyAndAnalytics ==
    (AnalyzeReturned /\ call.user_inputs = AnalyticsExample) =>
        TitlesOf(call.ret.tradeoffs)
            = <<"Consistency vs Scalability (CAP Theorem)",
                "SQL vs NoSQL for Analytics">>

\* the analysis of the example input, with its two trade-offs
C11_Witness ==
    /\ AnalyzeReturned
    /\ call.user_inputs = AnalyticsExample
    /\ Len(call.ret.tradeoffs) = 2
    /\ call.ret.recommendation.database = "PostgreSQL"

---------------------------------------------------------------------------
(* C12 *)

KeyOrder ==
    <<"app_type", "data_structure", "scalability", "transactions",
      "schema_flexibility">>

\* the score matrix of a criterion
TableOf(self, k) ==
    CASE k = "app_type" -> self.app_type_scores
      [] k = "data_structure" -> self.data_structure_scores
      [] k = "scalability" -> self.scalability_scores
      [] k = "transactions" -> self.transaction_scores
      [] k = "schema_flexibility" -> self.schema_scores

\* the cell of criterion k, or 0 when the value is no key of the matrix
CellOrZero(self, user_inputs, k, db) ==
    IF user_inputs[k] \in DOMAIN TableOf(self, k)
    THEN TableOf(self, k)[user_inputs[k]][db] ELSE 0

\* C12: with all five fields present, calculate_scores does not fail when a
\* value is no key of its criterion's matrix; that criterion contributes 0
\* to every candidate, each total is the sum of the cells of the other
\* criteria, and five unrecognized values score 0 for every candidate.
C12_DefensiveSkip ==
    (call.op = "calculate_scores" /\ DOMAIN call.user_inputs = Keys) =>
        /\ call.outcome = "returned"
        /\ \A db \in Range(Databases) :
              call.ret[db] = CellOrZero(engine, call.user_inputs, KeyOrder[1], db)
                           + CellOrZero(engine, call.user_inputs, KeyOrder[2], db)
                           + CellOrZero(engine, call.user_inputs, KeyOrder[3], db)
                           + CellOrZero(engine, call.user_inputs, KeyOrder[4], db)
                           + CellOrZero(engine, call.user_inputs, KeyOrder[5], db)
        /\ (\A k \in Keys : call.user_inputs[k] = Unrecognized(k))
              => call.ret = Row(0, 0, 0)

\* calculate_scores returned for an input whose schema_flexibility alone is
\* unrecognized
C12_Witness ==
    /\ call.op = "calculate_scores"
    /\ call.outcome = "returned"
    /\ DOMAIN call.user_inputs = Keys
    /\ call.user_inputs["schema_flexibility"] = "Maybe"
    /\ \A k \in Keys \ {"schema_flexibility"} : call.user_inputs[k] \in Enumeration(k)
    /\ call.added = 4

---------------------------------------------------------------------------
(* C13 *)

\* the opening sentence of a candidate
Opening(name) ==
    CASE name = "MySQL" ->
           "MySQL is recommended for your traditional web application needs with structured data."
      [] name = "PostgreSQL" ->
           "PostgreSQL offers the best balance of advanced features for your requirements."
      [] name = "MongoDB" ->
           "MongoDB is the best choice for your scalability and flexibility needs."

\* the conditional sentences of a candidate, in table order
Conditionals(name) ==
    CASE name = "MySQL" ->
           << "Strong ACID compliance meets your transaction requirements.",
              "Vertical scaling is sufficient for your scalability needs.",
              "Proven track record for web applications with excellent community support." >>
      [] name = "PostgreSQL" ->
           << "Superior query optimization and window functions support complex analytics workloads.",
              "Excellent JSONB support handles semi-structured data efficiently while maintaining relational integrity.",
              "Industry-leading ACID compliance and advanced transaction isolation ensures data integrity.",
              "JSONB and extension support provide flexibility while maintaining SQL capabilities." >>
      [] name = "MongoDB" ->
           << "Built-in sharding provides excellent horizontal scalability without complex configuration.",
              "Schema-less design allows rapid iteration and accommodates evolving data models.",
              "Optimized for high-throughput real-time applications with low-latency operations.",
              "Document model naturally fits unstructured and hierarchical data." >>

\* the input conditions of these sentences, in the same order
Conditions(name, ui) ==
    CASE name = "MySQL" ->
           << ui["transactions"] = "High", ui["scalability"] # "High",
              ui["app_type"] = "Web" >>
      [] name = "PostgreSQL" ->
           << ui["app_type"] = "Analytics", ui["data_structure"] = "Semi-structured",
              ui["transactions"] = "High", ui["schema_flexibility"] = "Yes" >>
      [] name = "MongoDB" ->
           << ui["scalability"] = "High", ui["schema_flexibility"] = "Yes",
              ui["app_type"] = "Real-time", ui["data_structure"] = "Unstructured" >>

\* every opening or conditional sentence of a candidate
SentencesOf(name) == {Opening(name)} \cup Range(Conditionals(name))

\* C13: for every valid input the reasoning is the opening sentence of the
\* top-ranked candidate, then those of its conditional sentences whose
\* condition holds, in table order, then the optional closeness note; no
\* sentence of another candidate appears; recommendation.database is the
\* name of the first ranked profile.
C13_ReasoningOfTopOnly ==
    ValidAnalysis =>
        LET top == call.ret.profiles[1].name
            reasoning == call.ret.recommendation.reasoning
            hasNote == IsNote(reasoning[Len(reasoning)])
            sentences == IF hasNote THEN SubSeq(reasoning, 1, Len(reasoning) - 1)
                         ELSE reasoning
            expected == <<Opening(top)>>
                           \o SelectFrom(Conditionals(top),
                                         Conditions(top, call.user_inputs), 1)
        IN  /\ call.ret.recommendation.database = top
            /\ sentences = [i \in 1..Len(expected) |-> <<expected[i]>>]
            /\ \A i \in 1..Len(sentences) :
                  \A other \in {"MySQL", "PostgreSQL", "MongoDB"} \ {top} :
                      sentences[i][1] \notin SentencesOf(other)

\* MySQL on top of a valid analysis with transactions Low: the reasoning is
\* the opening, the vertical-scaling sentence, and the note
C13_Witness ==
    /\ ValidAnalysis
    /\ call.ret.profiles[1].name = "MySQL"
    /\ call.user_inputs["transactions"] = "Low"
    /\ call.user_inputs["app_type"] # "Web"
    /\ Len(call.ret.recommendation.reasoning) = 3

---------------------------------------------------------------------------
(* C16 *)

\* C16: for every valid input MySQL's total does not exceed PostgreSQL's;
\* whenever MySQL is recommended the runner-up is PostgreSQL with an equal
\* score, the confidence is Low and the reasoning ends with a closeness note
\* naming PostgreSQL; confidence Medium or High occurs only with PostgreSQL
\* or MongoDB recommended.
C16_MySQLNeverAhead ==
    ValidAnalysis =>
        LET rec == call.ret.recommendation
            last == rec.reasoning[Len(rec.reasoning)]
        IN  /\ call.ret.scores["mysql"] <= call.ret.scores["postgresql"]
            /\ rec.database = "MySQL" =>
                  /\ call.ret.profiles[2].name = "PostgreSQL"
                  /\ call.ret.profiles[2].score = call.ret.profiles[1].score
                  /\ rec.confidence = "Low"
                  /\ IsNote(last)
                  /\ NoteName(last) = "PostgreSQL"
            /\ rec.confidence \in {"Medium", "High"}
                  => rec.database \in {"PostgreSQL", "MongoDB"}

\* a valid analysis that recommends MySQL, all three candidates tied
C16_Witness ==
    /\ ValidAnalysis
    /\ call.ret.recommendation.database = "MySQL"
    /\ call.ret.scores["mysql"] = call.ret.scores["mongodb"]

---------------------------------------------------------------------------
(* C15 *)

\* C15: the score matrices and the profile catalog keep the values they had
\* at construction, under any sequence of analyze calls and of caller
\* changes to the results returned, and every analyze call returns profiles
\* with the original pros and cons.
C15_StaticTablesKeepValues ==
    /\ engine = DecisionEngine
    /\ AnalyzeReturned =>
          \A i \in 1..Len(call.ret.profiles) :
              LET db_key == ProfileKey(DecisionEngine, call.ret.profiles[i].name)
              IN  /\ call.ret.profiles[i].pros = DbProfiles[db_key].pros
                  /\ call.ret.profiles[i].cons = DbProfiles[db_key].cons

---------------------------------------------------------------------------
(* C14: when the five steps of two analyze calls on one engine interleave *)
(* in any order, each caller receives the result its input produces when  *)
(* analyzed alone on a newly constructed engine                            *)

C14_ResultAsIfAlone ==
    \A t \in Threads :
        threads[t].pc = "returned" =>
            threads[t].ret = analyze(DecisionEngine, threads[t].user_inputs).ret

\* thread A has its result while the call of thread B, with another input
\* and another top candidate, has been running between A's steps or is
\* still running when A returns
C14_Witness ==
    /\ threads["A"].pc = "returned"
    /\ threads["B"].pc = "ranked"
    /\ threads["A"].user_inputs # threads["B"].user_inputs
    /\ threads["A"].ret.recommendation.database # threads["B"].profiles[1].name

---------------------------------------------------------------------------
(* C17 *)

\* the stored results and inputs are both absent, or both present with the
\* results those the engine of the session gives for the stored inputs
StoredPairConsistent ==
    /\ Len(streamlit.results) = Len(streamlit.user_inputs)
    /\ Len(streamlit.results) <= 1
    /\ Len(streamlit.results) = 1 =>
          streamlit.results[1] = analyze(engine, streamlit.user_inputs[1]).ret

\* the criteria the page shows and the requirement lines and recommendation
\* of the exported report are those of the stored inputs and results
ShownFromStored ==
    /\ streamlit.page.kind = "results" <=> Len(streamlit.results) = 1
    /\ streamlit.page.kind = "results" =>
          /\ \A i \in 1..Len(KeyOrder) :
                streamlit.page.criteria[i] = streamlit.user_inputs[1][KeyOrder[i]]
          /\ streamlit.page.recommendation = streamlit.results[1].recommendation
    /\ Len(streamlit.report) = 1 =>
          /\ Len(streamlit.results) = 1
          /\ \A i \in 1..Len(KeyOrder) :
                LET line == streamlit.report[1][6 + i]
                IN  /\ Len(line) = 2
                    /\ line[2] = streamlit.user_inputs[1][KeyOrder[i]]
          /\ streamlit.report[1][15]
                = <<"Database: ", streamlit.results[1].recommendation.database>>

\* a step that changes a sidebar selection leaves the stored pair as it was
SelectionLeavesStored ==
    streamlit'.selection # streamlit.selection =>
        /\ streamlit'.results = streamlit.results
        /\ streamlit'.user_inputs = streamlit.user_inputs

\* C17: in the UI session the stored results and user_inputs are both absent
\* or both present with results = analyze(user_inputs); changing a sidebar
\* selection without clicking Analyze leaves both unchanged; the displayed
\* criteria and the exported report always use the stored inputs.
C17_SessionPair ==
    /\ [](StoredPairConsistent /\ ShownFromStored)
    /\ [][SelectionLeavesStored]_vars

\* a report exported after the selection was changed away from the analyzed
\* inputs, to inputs with another recommendation
C17_Witness ==
    /\ Len(streamlit.report) = 1
    /\ streamlit.selection # streamlit.user_inputs[1]
    /\ streamlit.results[1].recommendation.database
          # analyze(engine, streamlit.selection).ret.recommendation.database

====
